---- MODULE Spec2Model ----
(***************************************************************************)
(* Hello Farm: the satellite observation selection and trend engine.       *)
(*                                                                         *)
(* Dates are whole days, counted from 2024-01-01 (day 0).  NDVI values are *)
(* integers in units of 1/10000, the resolution the fetchers round to      *)
(* (round(x, 4)); arithmetic on them is exact.                             *)
(*                                                                         *)
(* The push server (server.py) is modelled as three threads that run       *)
(* check_satellite_updates one store operation at a time: the startup      *)
(* catch-up thread, the scheduler's worker for the 6-hourly job and the    *)
(* event loop that serves /trigger/satellite.  The SQLite store, the       *)
(* delivery transports and the imagery provider are the environment: a     *)
(* store operation may raise sqlite3.Error, a send may fail.               *)
(***************************************************************************)
EXTENDS Integers, Sequences, FiniteSets, TLC

VARIABLES
    now,                        \* today's day number
    satellite_history,          \* rows of table satellite_history
    satellite_notifications,    \* rows of table satellite_notifications
    sqlite_sequence,            \* last AUTOINCREMENT id handed out, per table
    config,                     \* delivery configuration read from the environment
    pc,                         \* position of each thread in check_satellite_updates
    local,                      \* local variables of each thread's running check
    sent,                       \* every _broadcast made by a check, in order
    used,                       \* how much of each bound the run has consumed
    snap,                       \* the store as it was when the running check began
    card,                       \* the last report card the dashboard generated
    morning,                    \* clock, .last_morning_send flag and morning updates sent
    plots,                      \* ids of the rows of table plots
    irrigation_log,             \* rows of table irrigation_log
    deleted,                    \* the last call of delete_plot and what it returned
    inp,                        \* input of the pure function under study
    out                         \* its result

vars == <<now, satellite_history, satellite_notifications, sqlite_sequence,
          config, pc, local, sent, used, snap, card, morning, plots,
          irrigation_log, deleted, inp, out>>

storeVars == <<satellite_history, satellite_notifications, sqlite_sequence>>
pureVars == <<inp, out>>
farmVars == <<morning, plots, irrigation_log, deleted>>
outside == <<card, farmVars, inp, out>>     \* what no step of a check touches

(***************************************************************************)
(* Bounds of the model.                                                    *)
(***************************************************************************)
MaxChecks == 2          \* checks started in one run
MaxFaults == 1          \* store operations that raise sqlite3.Error in one run
MaxJumps == 1           \* times the calendar advances in one run
MaxCards == 1           \* report cards generated in one run

(***************************************************************************)
(* Program constants.                                                      *)
(***************************************************************************)
ACTIVE_PLOT == 2            \* id of the plot named ACTIVE_PLOT, the second setup_plots.py adds
SchedulerLookback == 7      \* check_satellite_updates(days_lookback=7)
StartupLookback == 30       \* check_satellite_updates(days_lookback=30)
HistoryDays == 30           \* db.get_satellite_history(..., days=30)
CardHistoryDays == 60       \* db.get_satellite_history(plot_name, days=60)
CardThreshold == 200        \* 0.02 in NDVI units
OTHER_PLOT == 1             \* id of the first plot setup_plots.py adds
TrendThreshold == 500       \* 0.05 in NDVI units

Threads == {"startup", "scheduler", "manual"}
PlotIds == {ACTIVE_PLOT, OTHER_PLOT}

NdviSamples == {4000, 5500}
AgeSamples == {0, 1}            \* age in days of the image the provider offers
SatSamples == {"Sentinel-2A"}
DayJumps == {1, HistoryDays}

Max(a, b) == IF a >= b THEN a ELSE b
Min(a, b) == IF a <= b THEN a ELSE b

(***************************************************************************)
(* server._ndvi_to_health: min(100, max(0, int((ndvi + 0.2) * 100))).      *)
(***************************************************************************)
_ndvi_to_health(ndvi) == Min(100, Max(0, (ndvi + 2000) \div 100))

(***************************************************************************)
(* server._compute_trend(current_ndvi, history): history is the list       *)
(* get_satellite_history returned, newest check_date first.                *)
(***************************************************************************)
\* The band with its edges outside: a change of exactly the threshold counts.
classify_inclusive(delta) ==
    IF delta >= TrendThreshold THEN "improving"
    ELSE IF delta <= -TrendThreshold THEN "declining"
    ELSE "stable"

classify(delta) ==
    IF delta > TrendThreshold THEN "improving"
    ELSE IF delta < -TrendThreshold THEN "declining"
    ELSE "stable"

\* A first reading classified as a change from zero.
_compute_trend_from_zero(current_ndvi, history) ==
    classify(current_ndvi - (IF Len(history) < 1 THEN 0 ELSE history[1].ndvi_value))

_compute_trend(current_ndvi, history) ==
    IF Len(history) < 1 THEN "checked"
    ELSE classify(current_ndvi - history[1].ndvi_value)

(***************************************************************************)
(* FarmDatabase.get_satellite_history(plot, days): the plot's rows with    *)
(* check_date >= cutoff, ORDER BY check_date DESC.  check_date is a        *)
(* 'YYYY-MM-DD' string and the cutoff an ISO timestamp of the day          *)
(* now - days, so a row dated exactly now - days compares below it.  Rows  *)
(* of one date come in an order SQLite does not fix.                       *)
(***************************************************************************)
PlotRows(plot_id) == {r \in satellite_history : r.plot_id = plot_id}

InWindow(plot_id, days) ==
    {r \in satellite_history : r.plot_id = plot_id /\ r.check_date > now - days}

Newest(rows) == {r \in rows : \A q \in rows : q.check_date <= r.check_date}

RECURSIVE OrderedDesc(_)
OrderedDesc(rows) ==
    IF rows = {} THEN {<<>>}
    ELSE UNION {{<<r>> \o s : s \in OrderedDesc(rows \ {r})} : r \in Newest(rows)}

get_satellite_history(plot_id, days) == OrderedDesc(InWindow(plot_id, days))

(***************************************************************************)
(* FarmDatabase.has_sent_notification_for_date: a row count above zero.    *)
(***************************************************************************)
has_sent_notification_for_date(plot_id, satellite_date) ==
    Cardinality({r \in satellite_notifications :
                    r.plot_id = plot_id /\ r.satellite_date = satellite_date}) > 0

(***************************************************************************)
(* INSERT OR REPLACE INTO satellite_notifications under                    *)
(* UNIQUE(plot_id, satellite_date): the rows that conflict with the new    *)
(* row are deleted, then the new row is inserted with a fresh id.          *)
(***************************************************************************)
\* A plain INSERT into a table without the UNIQUE constraint.
InsertPlain(table, row) == table \cup {row}

InsertOrReplace(table, row) ==
    {r \in table : ~(r.plot_id = row.plot_id /\ r.satellite_date = row.satellite_date)}
        \cup {row}

NotificationRow(id, plot_id, sat) ==
    [id |-> id, plot_id |-> plot_id, satellite_date |-> sat.date,
     satellite_name |-> sat.satellite, ndvi |-> sat.ndvi]

\* A history row filed under the first plot, whatever plot was checked.
HistoryRowFirstPlot(id, plot_id, sat, health) ==
    [id |-> id, plot_id |-> OTHER_PLOT, check_date |-> sat.date,
     satellite_source |-> sat.satellite, ndvi_value |-> sat.ndvi,
     health_score |-> health]

HistoryRow(id, plot_id, sat, health) ==
    [id |-> id, plot_id |-> plot_id, check_date |-> sat.date,
     satellite_source |-> sat.satellite, ndvi_value |-> sat.ndvi,
     health_score |-> health]

(***************************************************************************)
(* What MultiSatelliteManager.get_latest_ndvi can return: None, or the     *)
(* best image of the last days_lookback days.                              *)
(***************************************************************************)
NoSat == [found |-> FALSE, date |-> 0, ndvi |-> 0, satellite |-> "none"]

Observations(days_lookback) ==
    {[found |-> TRUE, date |-> now - age, ndvi |-> n, satellite |-> s] :
        age \in {a \in AgeSamples : a <= days_lookback},
        n \in NdviSamples, s \in SatSamples}

(***************************************************************************)
(* Delivery configuration, read from the environment when server.py is     *)
(* loaded: whether the Telegram token is set, whether RECIPIENTS is        *)
(* non-empty, and the WhatsApp mode ("mock" when no provider key is set).  *)
(* The configurations that send differently are listed; how many chat ids  *)
(* or numbers are configured shows in how many sends one broadcast can     *)
(* deliver.                                                                *)
(***************************************************************************)
Configs ==
    {[telegram_enabled |-> TRUE, has_recipients |-> FALSE, whatsapp_mode |-> "mock"],
     [telegram_enabled |-> FALSE, has_recipients |-> FALSE, whatsapp_mode |-> "mock"],
     [telegram_enabled |-> FALSE, has_recipients |-> TRUE, whatsapp_mode |-> "mock"],
     [telegram_enabled |-> FALSE, has_recipients |-> TRUE, whatsapp_mode |-> "live"]}

(***************************************************************************)
(* server._broadcast: Telegram when enabled (telegram.broadcast counts the *)
(* sends that succeeded, possibly none); else the console when RECIPIENTS  *)
(* is empty; else whatsapp.send_to_multiple, every send of which returns   *)
(* status "mock" (printed), "sent" or "failed".  It returns nothing.       *)
(* An outcome: the channel, and whether any send was delivered.            *)
(***************************************************************************)
_broadcast(cfg) ==
    IF cfg.telegram_enabled
    THEN {[channel |-> "telegram", delivered |-> d] : d \in BOOLEAN}
    ELSE IF ~cfg.has_recipients \/ cfg.whatsapp_mode = "mock"
    THEN {[channel |-> "console", delivered |-> FALSE]}
    ELSE {[channel |-> "whatsapp", delivered |-> d] : d \in BOOLEAN}

(***************************************************************************)
(* Threads.                                                                *)
(***************************************************************************)
NoLocal ==
    [lookback |-> 0, sat |-> NoSat, already_sent |-> FALSE, rec_existed |-> FALSE,
     read_failed |-> FALSE, hist_n |-> 0, prev_id |-> 0, trend |-> "none",
     health |-> 0, broadcast |-> FALSE, saved |-> FALSE, saved_id |-> 0,
     save_failed |-> FALSE,
     recorded |-> FALSE, record_failed |-> FALSE]

Lookback(t) == IF t = "startup" THEN StartupLookback ELSE SchedulerLookback

Idle(t) == pc[t] \in {"idle", "finished"}

CanFault == used.faults < MaxFaults
Fault == used' = [used EXCEPT !.faults = @ + 1]

\* No call of delete_plot yet.
NoDelete == [plot |-> 0, result |-> "none"]

\* The server is not running, data/.last_morning_send does not exist (flag
\* -1) and no morning update has been sent; the clock is before 07:00 IST of
\* day 0.
NoMorning ==
    [day |-> 0, after7 |-> FALSE, up |-> FALSE, catchup |-> "none", flag |-> -1,
     updates |-> <<>>]

\* The database as setup_plots.py leaves it: both plots, no rows elsewhere.
InitStore ==
    /\ now = 0
    /\ satellite_history = {}
    /\ satellite_notifications = {}
    /\ sqlite_sequence = [satellite_history |-> 0, satellite_notifications |-> 0,
                          irrigation_log |-> 0]
    /\ plots = PlotIds
    /\ irrigation_log = {}
    /\ deleted = NoDelete
    /\ sent = <<>>
    /\ used = [checks |-> 0, faults |-> 0, jumps |-> 0, cards |-> 0, starts |-> 0,
               manuals |-> 0, irrigations |-> 0, deletes |-> 0]
    /\ snap = [history |-> {}, notifications |-> {}, sent |-> 0]

InitThreads ==
    /\ pc = [t \in Threads |-> "idle"]
    /\ local = [t \in Threads |-> NoLocal]
    /\ morning = NoMorning

InitPure ==
    /\ inp = [fn |-> "none"]
    /\ out = [fn |-> "none"]

NoCard ==
    [plot_id |-> 0, ndvi |-> 0, trend |-> "none", is_baseline |-> FALSE,
     rows_before |-> 0, prev_id |-> 0, saved_id |-> 0]

Init ==
    /\ InitStore
    /\ InitThreads
    /\ InitPure
    /\ card = NoCard
    /\ config \in Configs

\* A check that goes on to the notification without an image.
StartCheckNoSkip(t) ==
    /\ pc[t] = "idle"
    /\ used.checks < MaxChecks
    /\ used' = [used EXCEPT !.checks = @ + 1]
    /\ \E sat \in Observations(Lookback(t)) \cup {NoSat} :
          /\ local' = [local EXCEPT ![t] = [NoLocal EXCEPT !.lookback = Lookback(t),
                                                          !.sat = sat]]
          /\ pc' = [pc EXCEPT ![t] = "dedup"]
    /\ UNCHANGED <<now, storeVars, config, sent, outside>>

\* check_satellite_updates is entered and, for the plot named ACTIVE_PLOT,
\* sat = multi_sat.get_latest_ndvi(...) is fetched; "if not sat: continue".
\* Nothing of the store is read or written up to here.
StartCheck(t) ==
    /\ pc[t] = "idle"
    /\ used.checks < MaxChecks
    /\ used' = [used EXCEPT !.checks = @ + 1]
    /\ \E sat \in IF ACTIVE_PLOT \in plots
                   THEN Observations(Lookback(t)) \cup {NoSat}
                   ELSE {NoSat} :      \* the list of plots to check is empty
          /\ local' = [local EXCEPT ![t] = [NoLocal EXCEPT !.lookback = Lookback(t),
                                                          !.sat = sat]]
          /\ pc' = [pc EXCEPT ![t] = IF sat.found THEN "dedup" ELSE "done"]
    /\ UNCHANGED <<now, storeVars, config, sent, outside>>

\* A de-duplication test that answers True on a store error, so that the
\* check skips the observation.
HasSentOrFailed(t) ==
    /\ pc[t] = "dedup"
    /\ LET exists == has_sent_notification_for_date(ACTIVE_PLOT, local[t].sat.date)
       IN \/ /\ local' = [local EXCEPT ![t].already_sent = exists,
                                       ![t].rec_existed = exists]
             /\ pc' = [pc EXCEPT ![t] = IF exists THEN "done" ELSE "trend"]
             /\ UNCHANGED used
          \/ /\ CanFault
             /\ Fault
             /\ local' = [local EXCEPT ![t].already_sent = TRUE,
                                       ![t].rec_existed = exists,
                                       ![t].read_failed = TRUE]
             /\ pc' = [pc EXCEPT ![t] = "done"]
    /\ UNCHANGED <<now, storeVars, config, sent, snap, outside>>

\* already_sent = db.has_sent_notification_for_date(plot["id"], sat["date"]);
\* on sqlite3.Error the method prints and returns False.
HasSent(t) ==
    /\ pc[t] = "dedup"
    /\ LET exists == has_sent_notification_for_date(ACTIVE_PLOT, local[t].sat.date)
       IN \/ /\ local' = [local EXCEPT ![t].already_sent = exists,
                                       ![t].rec_existed = exists]
             /\ pc' = [pc EXCEPT ![t] = IF exists THEN "done" ELSE "trend"]
             /\ UNCHANGED used
          \/ /\ CanFault
             /\ Fault
             /\ local' = [local EXCEPT ![t].already_sent = FALSE,
                                       ![t].rec_existed = exists,
                                       ![t].read_failed = TRUE]
             /\ pc' = [pc EXCEPT ![t] = "trend"]
    /\ UNCHANGED <<now, storeVars, config, sent, snap, outside>>

\* _send_satellite_notification up to the message: health score, history
\* read, trend.  A store error raised by the read is caught at the end of
\* the function, before anything was sent.
ComputeTrend(t) ==
    /\ pc[t] = "trend"
    /\ \/ /\ \E history \in get_satellite_history(ACTIVE_PLOT, HistoryDays) :
                local' = [local EXCEPT
                    ![t].health = _ndvi_to_health(local[t].sat.ndvi),
                    ![t].hist_n = Len(history),
                    ![t].prev_id = IF Len(history) < 1 THEN 0 ELSE history[1].id,
                    ![t].trend = _compute_trend(local[t].sat.ndvi, history)]
          /\ pc' = [pc EXCEPT ![t] = "broadcast"]
          /\ UNCHANGED used
       \/ /\ CanFault
          /\ Fault
          /\ pc' = [pc EXCEPT ![t] = "done"]
          /\ UNCHANGED local
    /\ UNCHANGED <<now, storeVars, config, sent, snap, outside>>

\* _broadcast(message, image_path): returns nothing, whatever was delivered.
Broadcast(t) ==
    /\ pc[t] = "broadcast"
    /\ \E o \in _broadcast(config) :
          sent' = Append(sent,
                    [plot_id |-> ACTIVE_PLOT, date |-> local[t].sat.date,
                     ndvi |-> local[t].sat.ndvi, trend |-> local[t].trend,
                     health |-> local[t].health, channel |-> o.channel,
                     delivered |-> o.delivered,
                     rows_before |-> Cardinality(PlotRows(ACTIVE_PLOT))])
    /\ local' = [local EXCEPT ![t].broadcast = TRUE]
    /\ pc' = [pc EXCEPT ![t] = "save"]
    /\ UNCHANGED <<now, storeVars, config, used, snap, outside>>

\* db.save_satellite_reading(...): INSERT INTO satellite_history; a store
\* error is re-raised and ends _send_satellite_notification in its except.
SaveReading(t) ==
    /\ pc[t] = "save"
    /\ \/ /\ LET id == sqlite_sequence.satellite_history + 1
             IN /\ satellite_history' = satellite_history \cup
                        {HistoryRow(id, ACTIVE_PLOT, local[t].sat, local[t].health)}
                /\ sqlite_sequence' = [sqlite_sequence EXCEPT !.satellite_history = id]
          /\ local' = [local EXCEPT ![t].saved = TRUE,
                                    ![t].saved_id = sqlite_sequence.satellite_history + 1]
          /\ pc' = [pc EXCEPT ![t] = "record"]
          /\ UNCHANGED used
       \/ /\ CanFault
          /\ Fault
          /\ local' = [local EXCEPT ![t].save_failed = TRUE]
          /\ pc' = [pc EXCEPT ![t] = "done"]
          /\ UNCHANGED <<satellite_history, sqlite_sequence>>
    /\ UNCHANGED <<now, satellite_notifications, config, sent, snap, outside>>

\* db.record_satellite_notification(...): INSERT OR REPLACE; a store error
\* is printed and swallowed.
RecordNotification(t) ==
    /\ pc[t] = "record"
    /\ \/ /\ LET id == sqlite_sequence.satellite_notifications + 1
             IN /\ satellite_notifications' =
                        InsertOrReplace(satellite_notifications,
                                        NotificationRow(id, ACTIVE_PLOT, local[t].sat))
                /\ sqlite_sequence' = [sqlite_sequence EXCEPT !.satellite_notifications = id]
          /\ local' = [local EXCEPT ![t].recorded = TRUE]
          /\ UNCHANGED used
       \/ /\ CanFault
          /\ Fault
          /\ local' = [local EXCEPT ![t].record_failed = TRUE]
          /\ UNCHANGED <<satellite_notifications, sqlite_sequence>>
    /\ pc' = [pc EXCEPT ![t] = "done"]
    /\ UNCHANGED <<now, satellite_history, config, sent, snap, outside>>

\* check_satellite_updates returns; the startup thread ends with it.
Return(t) ==
    /\ pc[t] = "done"
    /\ pc' = [pc EXCEPT ![t] = IF t = "startup" THEN "finished" ELSE "idle"]
    /\ local' = [local EXCEPT ![t] = NoLocal]
    /\ UNCHANGED <<now, storeVars, config, sent, used, snap, outside>>

(***************************************************************************)
(* ReportCardGenerator (report_card.py), run by the dashboard (app.py) on  *)
(* the same store.                                                         *)
(***************************************************************************)
Trunc(n, d) == IF n >= 0 THEN n \div d ELSE -((-n) \div d)     \* Python's int()

\* ReportCardGenerator._ndvi_to_health: the three-segment curve, truncated.
ReportCard_ndvi_to_health(ndvi) ==
    IF ndvi < 2000 THEN Trunc(ndvi * 30, 2000)
    ELSE IF ndvi < 4000 THEN 30 + Trunc((ndvi - 2000) * 30, 2000)
    ELSE 60 + Trunc(Min(ndvi - 4000, 4000) * 40, 4000)

\* Steps 3 and 4 of generate_report_card: the previous reading is the first
\* row of the history, and the trend is "baseline" without one.
CardTrend(current_ndvi, history) ==
    IF Len(history) = 0 THEN "baseline"
    ELSE LET ndvi_change == current_ndvi - history[1].ndvi_value
         IN IF ndvi_change > CardThreshold THEN "improving"
            ELSE IF ndvi_change < -CardThreshold THEN "declining"
            ELSE "stable"

\* generate_report_card(plot): reads the history, compares, then saves the
\* current reading under today's date.  A store error in the save is printed
\* as a warning; one in the read ends the call with nothing done, which is
\* no step.  The dashboard is used between checks.
GenerateReportCard(p) ==
    /\ \A t \in Threads : Idle(t)
    /\ p \in plots
    /\ used.cards < MaxCards
    /\ \E ndvi \in NdviSamples, s \in SatSamples,
          history \in get_satellite_history(p, CardHistoryDays) :
             LET id == sqlite_sequence.satellite_history + 1
                 reading == [found |-> TRUE, date |-> now, ndvi |-> ndvi, satellite |-> s]
                 result == [plot_id |-> p, ndvi |-> ndvi,
                            trend |-> CardTrend(ndvi, history),
                            is_baseline |-> Len(history) = 0,
                            rows_before |-> Cardinality(PlotRows(p)),
                            prev_id |-> IF Len(history) = 0 THEN 0 ELSE history[1].id,
                            saved_id |-> 0]
             IN \/ /\ satellite_history' = satellite_history \cup
                            {HistoryRow(id, p, reading, ReportCard_ndvi_to_health(ndvi))}
                   /\ sqlite_sequence' = [sqlite_sequence EXCEPT !.satellite_history = id]
                   /\ card' = [result EXCEPT !.saved_id = id]
                \/ /\ card' = result
                   /\ UNCHANGED <<satellite_history, sqlite_sequence>>
    /\ used' = [used EXCEPT !.cards = @ + 1]
    /\ UNCHANGED <<now, satellite_notifications, config, pc, local, sent, snap,
                   farmVars, pureVars>>

\* The calendar advances.  A check lasts seconds, so days pass between
\* checks, not inside one.
AdvanceDay ==
    /\ \A t \in Threads : Idle(t)
    /\ used.jumps < MaxJumps
    /\ \E k \in DayJumps : now' = now + k
    /\ used' = [used EXCEPT !.jumps = @ + 1]
    /\ UNCHANGED <<storeVars, config, pc, local, sent, snap, outside>>

CheckStep(t) ==
    \/ HasSent(t)
    \/ ComputeTrend(t)
    \/ Broadcast(t)
    \/ SaveReading(t)
    \/ RecordNotification(t)
    \/ Return(t)

\* The threads as the server runs them: nothing keeps a thread from entering
\* check_satellite_updates while another is inside it.
Next ==
    \/ \E t \in Threads : StartCheck(t) /\ UNCHANGED snap
    \/ \E t \in Threads : CheckStep(t)

Spec == Init /\ [][Next]_vars

\* Checks run one after another: a check starts only when no other is running.
SeqStartCheck(t) ==
    /\ \A u \in Threads : Idle(u)
    /\ StartCheck(t)
    /\ snap' = [history |-> satellite_history,
                notifications |-> satellite_notifications,
                sent |-> Len(sent)]

SeqNext ==
    \/ \E t \in Threads : SeqStartCheck(t)
    \/ \E t \in Threads : CheckStep(t)

SpecSeq == Init /\ [][SeqNext]_vars

\* Checks run one after another over several days.
DaysNext ==
    \/ SeqNext
    \/ AdvanceDay

SpecDays == Init /\ [][DaysNext]_vars

\* Checks run one after another, every store call of theirs answering, while
\* the dashboard generates report cards.
CardNext ==
    \/ SeqNext /\ used'.faults = used.faults
    \/ \E p \in PlotIds : GenerateReportCard(p)

SpecCard == Init /\ [][CardNext]_vars

(***************************************************************************)
(* _compute_trend on its own: a current NDVI against a history read from   *)
(* the store, newest first.                                                *)
(***************************************************************************)
MaxPrev == 3            \* previous readings are drawn from 0, 0.3, .. MaxPrev * 0.3
MaxOlder == 1           \* rows of the history behind its first

PrevSamples == {k * 3000 : k \in 0..MaxPrev}
DeltaSamples == {-6000, -600, -501, -500, -499, -1, 0, 1, 499, 500, 501, 600, 6000}

ReadingRow(id, ndvi) ==
    [id |-> id, plot_id |-> ACTIVE_PLOT, check_date |-> 0,
     satellite_source |-> "Sentinel-2A", ndvi_value |-> ndvi, health_score |-> 50]

RECURSIVE OlderRows(_)
OlderRows(n) ==
    IF n = 0 THEN <<>> ELSE OlderRows(n - 1) \o <<ReadingRow(n, 9000)>>

TrendInputs ==
    {[fn |-> "_compute_trend", current_ndvi |-> prev + d, history |-> <<>>] :
        prev \in PrevSamples, d \in DeltaSamples}
    \cup
    {[fn |-> "_compute_trend", current_ndvi |-> prev + d,
      history |-> <<ReadingRow(n + 1, prev)>> \o OlderRows(n)] :
        prev \in PrevSamples, d \in DeltaSamples, n \in 0..MaxOlder}

InitTrend ==
    /\ InitStore
    /\ InitThreads
    /\ card = NoCard
    /\ config = [telegram_enabled |-> FALSE, has_recipients |-> FALSE,
                 whatsapp_mode |-> "mock"]
    /\ inp \in {i \in TrendInputs : i.current_ndvi \in -10000..10000}
    /\ out = [fn |-> "none", trend |-> "none"]

ComputeTrendCall ==
    /\ inp.fn = "_compute_trend"
    /\ out.fn = "none"
    /\ out' = [fn |-> "_compute_trend",
               trend |-> _compute_trend(inp.current_ndvi, inp.history)]
    /\ UNCHANGED <<now, storeVars, config, pc, local, sent, used, snap, card,
                   farmVars, inp>>

TrendNext == ComputeTrendCall

SpecTrend == InitTrend /\ [][TrendNext]_vars

(***************************************************************************)
(* SatelliteManager (satellite_manager.py): pass prediction over           *)
(* SATELLITE_CATALOG.  Epochs are day numbers: 2024-01-03 is day 2.        *)
(***************************************************************************)
MaxBefore == 20         \* reference dates start this many days before day 0
MaxRef == 40            \* and end at this day

CatalogOrder == <<"Sentinel-2A", "Sentinel-2B", "Landsat-8", "Landsat-9">>

SATELLITE_CATALOG ==
    [name \in {"Sentinel-2A", "Sentinel-2B", "Landsat-8", "Landsat-9"} |->
        CASE name = "Sentinel-2A" ->
                [epoch |-> 2, revisit_days |-> 10, priority |-> 1, resolution_m |-> 10]
          [] name = "Sentinel-2B" ->
                [epoch |-> 7, revisit_days |-> 10, priority |-> 2, resolution_m |-> 10]
          [] name = "Landsat-8" ->
                [epoch |-> 4, revisit_days |-> 16, priority |-> 3, resolution_m |-> 30]
          [] name = "Landsat-9" ->
                [epoch |-> 12, revisit_days |-> 16, priority |-> 4, resolution_m |-> 30]]

DaysAheadSamples == {-1, 0, 7, 30}

\* A C-style remainder, which takes the sign of the dividend.
TruncMod(a, b) == IF a >= 0 THEN a % b ELSE -((-a) % b)

\* Python's %: for a positive divisor the result is in 0 .. b - 1, also for a
\* negative dividend.
PyMod(a, b) == a - b * (a \div b)

\* Days from ref to the first pass on or after it.
DaysUntilNext(info, ref) ==
    LET delta == ref - info.epoch
        days_since_last == PyMod(delta, info.revisit_days)
    IN IF days_since_last > 0 THEN info.revisit_days - days_since_last ELSE 0

predict_next_pass(satellite_name, from_date) ==
    from_date + DaysUntilNext(SATELLITE_CATALOG[satellite_name], from_date)

\* The while loop of get_pass_schedule for one satellite.
RECURSIVE PassesFrom(_, _, _, _)
PassesFrom(sat_name, next_pass, ref, end) ==
    IF next_pass <= end
    THEN <<[satellite_name |-> sat_name, pass_date |-> next_pass,
            days_until |-> next_pass - ref,
            resolution_m |-> SATELLITE_CATALOG[sat_name].resolution_m,
            priority |-> SATELLITE_CATALOG[sat_name].priority]>>
         \o PassesFrom(sat_name, next_pass + SATELLITE_CATALOG[sat_name].revisit_days,
                       ref, end)
    ELSE <<>>

\* The for loop: the satellites in the catalog's order.
RECURSIVE CollectPasses(_, _, _)
CollectPasses(k, ref, end) ==
    IF k > Len(CatalogOrder) THEN <<>>
    ELSE PassesFrom(CatalogOrder[k],
                    ref + DaysUntilNext(SATELLITE_CATALOG[CatalogOrder[k]], ref),
                    ref, end)
         \o CollectPasses(k + 1, ref, end)

\* key=lambda p: (p.days_until, p.priority), compared as tuples.
KeyLess(p, q) ==
    \/ p.days_until < q.days_until
    \/ p.days_until = q.days_until /\ p.priority < q.priority

\* list.sort is stable: an element goes behind every element whose key is
\* not greater than its own.
RECURSIVE InsertByKey(_, _)
InsertByKey(sorted, p) ==
    IF sorted = <<>> THEN <<p>>
    ELSE IF KeyLess(p, Head(sorted)) THEN <<p>> \o sorted
    ELSE <<Head(sorted)>> \o InsertByKey(Tail(sorted), p)

RECURSIVE SortedFrom(_, _, _)
SortedFrom(passes, k, acc) ==
    IF k > Len(passes) THEN acc
    ELSE SortedFrom(passes, k + 1, InsertByKey(acc, passes[k]))

SortNone(passes) == passes

SortPasses(passes) == SortedFrom(passes, 1, <<>>)

\* A schedule whose window ends the day before from_date + days_ahead.
get_pass_schedule_open(days_ahead, from_date) ==
    SortPasses(CollectPasses(1, from_date, from_date + days_ahead - 1))

get_pass_schedule(days_ahead, from_date) ==
    SortPasses(CollectPasses(1, from_date, from_date + days_ahead))

PassInputs ==
    {[fn |-> "predict_next_pass", satellite_name |-> n, from_date |-> d, days_ahead |-> 0] :
        n \in DOMAIN SATELLITE_CATALOG, d \in -MaxBefore..MaxRef}
    \cup
    {[fn |-> "get_pass_schedule", satellite_name |-> "none", from_date |-> d,
      days_ahead |-> a] :
        d \in -MaxBefore..MaxRef, a \in DaysAheadSamples}

InitPass ==
    /\ InitStore
    /\ InitThreads
    /\ card = NoCard
    /\ config = [telegram_enabled |-> FALSE, has_recipients |-> FALSE,
                 whatsapp_mode |-> "mock"]
    /\ inp \in PassInputs
    /\ out = [fn |-> "none", date |-> 0, passes |-> <<>>]

PredictNextPass ==
    /\ inp.fn = "predict_next_pass"
    /\ out.fn = "none"
    /\ out' = [fn |-> "predict_next_pass",
               date |-> predict_next_pass(inp.satellite_name, inp.from_date),
               passes |-> <<>>]
    /\ UNCHANGED <<now, storeVars, config, pc, local, sent, used, snap, card,
                   farmVars, inp>>

GetPassSchedule ==
    /\ inp.fn = "get_pass_schedule"
    /\ out.fn = "none"
    /\ out' = [fn |-> "get_pass_schedule", date |-> 0,
               passes |-> get_pass_schedule(inp.days_ahead, inp.from_date)]
    /\ UNCHANGED <<now, storeVars, config, pc, local, sent, used, snap, card,
                   farmVars, inp>>

PassNext ==
    \/ PredictNextPass
    \/ GetPassSchedule

SpecPass == InitPass /\ [][PassNext]_vars

(***************************************************************************)
(* SatelliteManager.select_best_satellite (satellite_manager.py) and       *)
(* MultiSatelliteManager._select_best (satellite_multi.py).                *)
(***************************************************************************)
MaxCandidates == 2      \* queries that return an image, of the three

Abs(x) == IF x < 0 THEN -x ELSE x

\* No preference for a finer resolution.
ResolutionBonusFlat(resolution_m) == 40

\* int(40 / (resolution_m / 10)): 40 for 10 m, 13 for 30 m.
ResolutionBonus(resolution_m) == 400 \div resolution_m

\* A candidate measured to the next pass alone, the previous pass ignored.
PassCandidateForward(sat_name, ref, max_days_window, has_key) ==
    LET info == SATELLITE_CATALOG[sat_name]
        next_pass == predict_next_pass(sat_name, ref)
        days_away == Abs(next_pass - ref)
    IN IF days_away <= max_days_window
       THEN <<[satellite |-> sat_name,
               score |-> (IF has_key THEN 100 ELSE 0)
                         + ResolutionBonus(info.resolution_m)
                         - days_away * 10 - info.priority,
               pass_date |-> next_pass,
               days_from_target |-> days_away,
               resolution_m |-> info.resolution_m,
               has_api_key |-> has_key]>>
       ELSE <<>>

\* The candidate select_best_satellite builds for one satellite: none when
\* the closer of the next and the previous pass is outside the window.
PassCandidate(sat_name, ref, max_days_window, has_key) ==
    LET info == SATELLITE_CATALOG[sat_name]
        next_pass == predict_next_pass(sat_name, ref)
        days_away == Abs(next_pass - ref)
        prev_pass == next_pass - info.revisit_days
        days_since_prev == Abs(ref - prev_pass)
        closest_days == Min(days_away, days_since_prev)
        closest_date == IF days_away <= days_since_prev THEN next_pass ELSE prev_pass
    IN IF closest_days <= max_days_window
       THEN <<[satellite |-> sat_name,
               score |-> (IF has_key THEN 100 ELSE 0)
                         + ResolutionBonus(info.resolution_m)
                         - closest_days * 10 - info.priority,
               pass_date |-> closest_date,
               days_from_target |-> closest_days,
               resolution_m |-> info.resolution_m,
               has_api_key |-> has_key]>>
       ELSE <<>>

RECURSIVE PassCandidates(_, _, _, _)
PassCandidates(k, ref, max_days_window, has_key) ==
    IF k > Len(CatalogOrder) THEN <<>>
    ELSE PassCandidate(CatalogOrder[k], ref, max_days_window, has_key)
         \o PassCandidates(k + 1, ref, max_days_window, has_key)

\* The last index holding the greatest score.
LastMaxScore(list) ==
    CHOOSE i \in 1..Len(list) :
        /\ \A j \in 1..Len(list) : list[j].score <= list[i].score
        /\ \A j \in (i + 1)..Len(list) : list[j].score < list[i].score

\* candidates.sort(key=score, reverse=True)[0] and max(scored, key=score):
\* both keep the first of the elements with the greatest score.
FirstMaxScore(list) ==
    CHOOSE i \in 1..Len(list) :
        /\ \A j \in 1..Len(list) : list[j].score <= list[i].score
        /\ \A j \in 1..(i - 1) : list[j].score < list[i].score

\* select_best_satellite(target_date, max_days_window), called on the day
\* today: target_date None stands for today.  Without a candidate it asks
\* get_pass_schedule(days_ahead=max_days_window * 3), which starts from
\* today, and without a pass there it names Sentinel-2A.
select_best_satellite(target_date, max_days_window, today, has_key) ==
    LET candidates == PassCandidates(1, target_date, max_days_window, has_key)
        all_passes == get_pass_schedule(max_days_window * 3, today)
    IN IF candidates = <<>>
       THEN IF all_passes # <<>>
            THEN [satellite |-> all_passes[1].satellite_name,
                  reason |-> "No satellite in window, selected soonest pass",
                  has_pass |-> TRUE,
                  pass_date |-> all_passes[1].pass_date,
                  days_from_target |-> all_passes[1].days_until,
                  score |-> 0, candidates |-> candidates]
            ELSE [satellite |-> "Sentinel-2A", reason |-> "Fallback default",
                  has_pass |-> FALSE, pass_date |-> 0, days_from_target |-> 0,
                  score |-> 0, candidates |-> candidates]
       ELSE LET best == candidates[FirstMaxScore(candidates)]
            IN [satellite |-> best.satellite, reason |-> "scored",
                has_pass |-> TRUE, pass_date |-> best.pass_date,
                days_from_target |-> best.days_from_target,
                score |-> best.score, candidates |-> candidates]

\* The satellites get_latest_ndvi queries, in its order, with the scale_m
\* of their collection.
QueryOrder == <<"Sentinel-2A", "Landsat-8", "Landsat-9">>

ScaleM(satellite_name) ==
    IF satellite_name \in {"Sentinel-2A", "Sentinel-2B"} THEN 10 ELSE 30

\* recency * 0.5 + clouds * 0.3 + resolution * 0.2, times 30 to stay whole:
\* 15 * max(0, 100 - 10 * age) + 9 * (100 - cloud) + 6 * (10 / res) * 100.
Score30(img) ==
    15 * Max(0, 100 - img.age_days * 10)
        + 9 * (100 - img.cloud_cover)
        + 6000 \div img.resolution_m

Scored(candidates) ==
    [i \in 1..Len(candidates) |->
        [satellite |-> candidates[i].satellite, age_days |-> candidates[i].age_days,
         cloud_cover |-> candidates[i].cloud_cover,
         resolution_m |-> candidates[i].resolution_m, ndvi |-> candidates[i].ndvi,
         score |-> Score30(candidates[i])]]

\* round(min(1.0, score / 100), 2) in hundredths.  A score that lies exactly
\* between two hundredths goes to either, as its binary value falls.
Confidences(score30) ==
    LET capped == Min(3000, score30)
        q == capped \div 30
        r == capped % 30
    IN IF r < 15 THEN {q} ELSE IF r > 15 THEN {q + 1} ELSE {q, q + 1}

\* The first candidate, whatever its score.
_select_first(candidates) == Scored(candidates)[1]

_select_best(candidates) == Scored(candidates)[FirstMaxScore(Scored(candidates))]

SelectAges == {0, 1, 12}
SelectClouds == {0, 10, 15, 45}     \* _query_collection keeps cloud cover below 50
WindowSamples == {0, 1, 3, 8}
TodaySamples == {0, 3}

\* What the query of one satellite can add to the candidates: an image of
\* that satellite, or nothing.
Images(n) ==
    {[satellite |-> n, age_days |-> a, cloud_cover |-> c, resolution_m |-> ScaleM(n),
      ndvi |-> 5000] : a \in SelectAges, c \in SelectClouds}

NoImage == [satellite |-> "none"]

\* The candidate lists get_latest_ndvi hands to _select_best: at most one
\* image per queried satellite, in the order of the queries.
ListsOf(n) ==
    {l \in {SelectSeq(<<a, b, c>>, LAMBDA x : x # NoImage) :
                a \in Images(QueryOrder[1]) \cup {NoImage},
                b \in Images(QueryOrder[2]) \cup {NoImage},
                c \in Images(QueryOrder[3]) \cup {NoImage}} :
        Len(l) >= 1 /\ Len(l) <= n}

SelectInputs ==
    {[fn |-> "_select_best", candidates |-> l, target_date |-> 0,
      max_days_window |-> 0, today |-> 0, has_key |-> FALSE] :
        l \in ListsOf(MaxCandidates)}
    \cup
    {[fn |-> "select_best_satellite", candidates |-> <<>>, target_date |-> d,
      max_days_window |-> w, today |-> t, has_key |-> k] :
        d \in 0..MaxRef, w \in WindowSamples, t \in TodaySamples, k \in BOOLEAN}

NoSelection ==
    [fn |-> "none", best |-> [satellite |-> "none"], confidence |-> 0,
     selection |-> [satellite |-> "none"]]

InitSelect ==
    /\ InitStore
    /\ InitThreads
    /\ card = NoCard
    /\ config = [telegram_enabled |-> FALSE, has_recipients |-> FALSE,
                 whatsapp_mode |-> "mock"]
    /\ inp \in SelectInputs
    /\ out = NoSelection

SelectBest ==
    /\ inp.fn = "_select_best"
    /\ out.fn = "none"
    /\ LET best == _select_best(inp.candidates)
       IN \E c \in Confidences(best.score) :
             out' = [NoSelection EXCEPT !.fn = "_select_best", !.best = best,
                                        !.confidence = c]
    /\ UNCHANGED <<now, storeVars, config, pc, local, sent, used, snap, card,
                   farmVars, inp>>

SelectBestSatellite ==
    /\ inp.fn = "select_best_satellite"
    /\ out.fn = "none"
    /\ out' = [NoSelection EXCEPT
                 !.fn = "select_best_satellite",
                 !.selection = select_best_satellite(inp.target_date,
                                   inp.max_days_window, inp.today, inp.has_key)]
    /\ UNCHANGED <<now, storeVars, config, pc, local, sent, used, snap, card,
                   farmVars, inp>>

SelectNext ==
    \/ SelectBest
    \/ SelectBestSatellite

SpecSelect == InitSelect /\ [][SelectNext]_vars

(***************************************************************************)
(* MultiSatelliteManager.get_latest_ndvi (satellite_multi.py).  What Earth *)
(* Engine answers to one _query_collection, and what the fallback monitor  *)
(* answers, are the environment.                                           *)
(***************************************************************************)
NoObservation ==
    [found |-> FALSE, satellite |-> "none", age_days |-> 0, cloud_cover |-> 0,
     resolution_m |-> 0, ndvi |-> 0, source |-> "none", score |-> 0]

\* _query_collection(geometry, date_range, satellite_name): None when the
\* collection is empty, when the mean NDVI is null and when anything raises;
\* else the newest image, its NDVI rounded to four decimals as it comes.
_query_collection(satellite_name, answer) ==
    IF answer.kind # "image" THEN <<>>
    ELSE <<[satellite |-> IF satellite_name = "Sentinel-2A" THEN answer.spacecraft
                          ELSE satellite_name,
            age_days |-> answer.age_days,
            cloud_cover |-> answer.cloud_cover,
            resolution_m |-> ScaleM(satellite_name),
            ndvi |-> answer.nd]>>

\* _fallback(latitude, longitude): the monitor's reading dated today, or
\* None when it has none or raises.
_fallback(answer) ==
    IF answer.kind # "reading" THEN NoObservation
    ELSE [found |-> TRUE, satellite |-> "Sentinel Hub", age_days |-> 0,
          cloud_cover |-> answer.cloud_cover, resolution_m |-> 10,
          ndvi |-> answer.ndvi, source |-> "fallback", score |-> 0]

RECURSIVE Gathered(_, _)
Gathered(k, queries) ==
    IF k > Len(QueryOrder) THEN <<>>
    ELSE _query_collection(QueryOrder[k], queries[QueryOrder[k]])
         \o Gathered(k + 1, queries)

\* A fetch that gives up on the satellites as soon as one query fails.
get_latest_ndvi_abort(initialized, queries, fallback) ==
    IF ~initialized \/ \E n \in DOMAIN queries : queries[n].kind # "image"
    THEN _fallback(fallback)
    ELSE LET best == _select_best(Gathered(1, queries))
         IN [found |-> TRUE, satellite |-> best.satellite, age_days |-> best.age_days,
             cloud_cover |-> best.cloud_cover, resolution_m |-> best.resolution_m,
             ndvi |-> best.ndvi, source |-> "GEE", score |-> best.score]

get_latest_ndvi(initialized, queries, fallback) ==
    IF ~initialized THEN _fallback(fallback)
    ELSE LET candidates == Gathered(1, queries)
         IN IF candidates = <<>> THEN _fallback(fallback)
            ELSE LET best == _select_best(candidates)
                 IN [found |-> TRUE, satellite |-> best.satellite,
                     age_days |-> best.age_days, cloud_cover |-> best.cloud_cover,
                     resolution_m |-> best.resolution_m, ndvi |-> best.ndvi,
                     source |-> "GEE", score |-> best.score]

NoAnswer(kind) ==
    [kind |-> kind, spacecraft |-> "none", age_days |-> 0, cloud_cover |-> 0, nd |-> 0]

FailureKinds == {"exception", "empty", "null"}

\* Mean NDVI of normalizedDifference lies in [-1, 1]; the collection is
\* filtered to cloud cover below 50.
QueryAnswers(satellite_name) ==
    {NoAnswer(k) : k \in FailureKinds}
    \cup
    {[kind |-> "image", spacecraft |-> sc, age_days |-> a, cloud_cover |-> c, nd |-> nd] :
        sc \in (IF satellite_name = "Sentinel-2A" THEN {"Sentinel-2A", "Sentinel-2B"}
                ELSE {satellite_name}),
        a \in {0, 12}, c \in {10, 15}, nd \in {-1000, 5000}}

FallbackAnswers ==
    {[kind |-> "exception", ndvi |-> 0, cloud_cover |-> 0],
     [kind |-> "none", ndvi |-> 0, cloud_cover |-> 0],
     [kind |-> "reading", ndvi |-> 4500, cloud_cover |-> 20]}

FetchInputs ==
    {[fn |-> "get_latest_ndvi", initialized |-> i, queries |-> q, fallback |-> f] :
        i \in BOOLEAN,
        q \in [{"Sentinel-2A", "Landsat-8", "Landsat-9"} ->
                  UNION {QueryAnswers(n) : n \in {"Sentinel-2A", "Landsat-8", "Landsat-9"}}],
        f \in FallbackAnswers}

InitFetch ==
    /\ InitStore
    /\ InitThreads
    /\ card = NoCard
    /\ config = [telegram_enabled |-> FALSE, has_recipients |-> FALSE,
                 whatsapp_mode |-> "mock"]
    /\ inp \in {i \in FetchInputs :
                   \A n \in DOMAIN i.queries : i.queries[n] \in QueryAnswers(n)}
    /\ out = [fn |-> "none", result |-> NoObservation]

GetLatestNdvi ==
    /\ inp.fn = "get_latest_ndvi"
    /\ out.fn = "none"
    /\ out' = [fn |-> "get_latest_ndvi",
               result |-> get_latest_ndvi(inp.initialized, inp.queries, inp.fallback)]
    /\ UNCHANGED <<now, storeVars, config, pc, local, sent, used, snap, card,
                   farmVars, inp>>

FetchNext == GetLatestNdvi

SpecFetch == InitFetch /\ [][FetchNext]_vars

(***************************************************************************)
(* The health mappers with the three-segment curve.  NDVI is in units of   *)
(* 1/10000, so 0.2 is 2000, 0.4 is 4000 and 0.8 is 8000; int() truncates    *)
(* toward zero (Trunc).  server._ndvi_to_health, defined above, is a        *)
(* different, single-segment curve.                                        *)
(***************************************************************************)
\* GEEProvider._ndvi_to_health (gee_provider.py): no clamp of the result.
GEEProvider_ndvi_to_health(ndvi) ==
    IF ndvi < 2000 THEN Trunc(ndvi * 30, 2000)
    ELSE IF ndvi < 4000 THEN Trunc(30 * 2000 + (ndvi - 2000) * 30, 2000)
    ELSE Trunc(60 * 4000 + Min(ndvi - 4000, 4000) * 40, 4000)

\* The same curve rounded to the nearest integer instead of truncated.
ndvi_to_health_score_rounded(ndvi) ==
    LET health == IF ndvi < 2000 THEN Trunc(ndvi * 60 + 2000, 4000)
                  ELSE IF ndvi < 4000
                       THEN Trunc(60 * 2000 + (ndvi - 2000) * 60 + 2000, 4000)
                  ELSE Trunc(120 * 4000 + Min(ndvi - 4000, 4000) * 80 + 4000, 8000)
    IN  Max(0, Min(100, health))

\* SatelliteMonitor.ndvi_to_health_score (satellite.py): the curve, then
\* max(0, min(100, health)).
ndvi_to_health_score(ndvi) ==
    LET health == IF ndvi < 2000 THEN Trunc(ndvi * 30, 2000)
                  ELSE IF ndvi < 4000
                       THEN Trunc(30 * 2000 + (ndvi - 2000) * 30, 2000)
                  ELSE Trunc(60 * 4000 + Min(ndvi - 4000, 4000) * 40, 4000)
    IN  Max(0, Min(100, health))

\* NDVI arguments: every 0.005 from -0.2 to 1.2.
HealthSamples == {50 * k : k \in (0 - 40)..240}

HealthInputs == {[fn |-> "ndvi_to_health", ndvi |-> n] : n \in HealthSamples}

NoHealth == [fn |-> "none", monitor |-> 0, gee |-> 0, card |-> 0, server |-> 0]

InitHealth ==
    /\ InitStore
    /\ InitThreads
    /\ card = NoCard
    /\ config = [telegram_enabled |-> FALSE, has_recipients |-> FALSE,
                 whatsapp_mode |-> "mock"]
    /\ inp \in HealthInputs
    /\ out = NoHealth

NdviToHealth ==
    /\ inp.fn = "ndvi_to_health"
    /\ out.fn = "none"
    /\ out' = [fn |-> "ndvi_to_health",
               monitor |-> ndvi_to_health_score(inp.ndvi),
               gee |-> GEEProvider_ndvi_to_health(inp.ndvi),
               card |-> ReportCard_ndvi_to_health(inp.ndvi),
               server |-> _ndvi_to_health(inp.ndvi)]
    /\ UNCHANGED <<now, storeVars, config, pc, local, sent, used, snap, card,
                   farmVars, inp>>

HealthNext == NdviToHealth

SpecHealth == InitHealth /\ [][HealthNext]_vars

(***************************************************************************)
(* Which image of a collection the two fetchers take.  An image is its     *)
(* day (system:time_start) and its cloud cover in percent; a collection is *)
(* what filterBounds and filterDate leave of the provider's archive.       *)
(***************************************************************************)
MaxImages == 2          \* images of one satellite inside the date window

CloudThreshold == 50

ImageDays == {0, 1, 2}
ImageClouds == {10, 30, 49, 50, 70}

ArchiveImages == {[day |-> d, cloud |-> c] : d \in ImageDays, c \in ImageClouds}

Collections == {c \in SUBSET ArchiveImages : Cardinality(c) <= MaxImages}

NoFirst == [day |-> -1, cloud |-> -1]

\* .filter(ee.Filter.lt(cloud_prop, 50))
FilterCloud(collection) == {i \in collection : i.cloud < CloudThreshold}

\* MultiSatelliteManager._query_collection: None for an empty collection,
\* else collection.sort("system:time_start", False).first(); images of one
\* time come in an order the provider does not fix.
QueryFirst(collection) ==
    LET kept == FilterCloud(collection)
    IN IF kept = {} THEN {NoFirst}
       ELSE {i \in kept : \A j \in kept : j.day <= i.day}

\* GEEProvider.fetch_ndvi: collection.sort(cloud_field).first(), unavailable
\* for an empty collection.
FetchFirst(collection) ==
    LET kept == FilterCloud(collection)
    IN IF kept = {} THEN {NoFirst}
       ELSE {i \in kept : \A j \in kept : i.cloud <= j.cloud}

InitQuery ==
    /\ InitStore
    /\ InitThreads
    /\ card = NoCard
    /\ config = [telegram_enabled |-> FALSE, has_recipients |-> FALSE,
                 whatsapp_mode |-> "mock"]
    /\ inp \in {[fn |-> "first", collection |-> c] : c \in Collections}
    /\ out = [fn |-> "none", multi |-> NoFirst, gee |-> NoFirst]

QueryCollection ==
    /\ inp.fn = "first"
    /\ out.fn = "none"
    /\ \E m \in QueryFirst(inp.collection), g \in FetchFirst(inp.collection) :
          out' = [fn |-> "first", multi |-> m, gee |-> g]
    /\ UNCHANGED <<now, storeVars, config, pc, local, sent, used, snap, card,
                   farmVars, inp>>

QueryNext == QueryCollection

SpecQuery == InitQuery /\ [][QueryNext]_vars

(***************************************************************************)
(* The morning update (server.py): the 07:00 IST cron job, the catch-up of *)
(* the startup thread and GET /trigger/morning all call                    *)
(* send_morning_update; data/.last_morning_send holds the date of the last *)
(* one sent.  The clock is an IST day and whether 07:00 has passed.        *)
(***************************************************************************)
MaxDay == 1             \* last calendar day of a run, counted from 0
MaxStarts == 2          \* server starts in one run
MaxManual == 1          \* GET /trigger/morning requests in one run

\* send_morning_update: after _broadcast the flag is written with today's
\* date; without a plot named ACTIVE_PLOT, or when an exception is caught
\* before the broadcast, nothing is sent and the flag stays.
send_morning_update(m, by) ==
    {m} \cup
    IF ACTIVE_PLOT \in plots
    THEN {[m EXCEPT !.updates = Append(@, [day |-> m.day, by |-> by,
                                            flag_before |-> m.flag]),
                    !.flag = m.day]}
    ELSE {}

\* _morning_sent_today(): the flag file exists and holds today's date.
_morning_sent_today(m) == m.flag = m.day

\* lifespan: scheduler.start() and the catch-up thread.
ServerStart ==
    /\ ~morning.up
    /\ used.starts < MaxStarts
    /\ used' = [used EXCEPT !.starts = @ + 1]
    /\ morning' = [morning EXCEPT !.up = TRUE, !.catchup = "pending"]
    /\ UNCHANGED <<now, storeVars, config, pc, local, sent, snap, card, plots,
                   irrigation_log, deleted, pureVars>>

\* The process ends; the daemon thread ends with it, the flag file stays.
ServerStop ==
    /\ morning.up
    /\ morning' = [morning EXCEPT !.up = FALSE, !.catchup = "none"]
    /\ UNCHANGED <<now, storeVars, config, pc, local, sent, used, snap, card, plots,
                   irrigation_log, deleted, pureVars>>

\* _startup_catchup, five seconds after the start: the morning update is
\* sent if the flag does not hold today's date, whatever the time of day.
StartupCatchup ==
    /\ morning.up
    /\ morning.catchup = "pending"
    /\ \E m \in IF _morning_sent_today(morning) THEN {morning}
                ELSE send_morning_update(morning, "startup") :
          morning' = [m EXCEPT !.catchup = "done"]
    /\ UNCHANGED <<now, storeVars, config, pc, local, sent, used, snap, card, plots,
                   irrigation_log, deleted, pureVars>>

\* 07:00 passes.  With the server running the cron job calls
\* send_morning_update; it does not look at the flag.
SevenOClock ==
    /\ ~morning.after7
    /\ \E m \in IF morning.up THEN send_morning_update(morning, "scheduler")
                ELSE {morning} :
          morning' = [m EXCEPT !.after7 = TRUE]
    /\ UNCHANGED <<now, storeVars, config, pc, local, sent, used, snap, card, plots,
                   irrigation_log, deleted, pureVars>>

Midnight ==
    /\ morning.after7
    /\ morning.day < MaxDay
    /\ morning' = [morning EXCEPT !.day = @ + 1, !.after7 = FALSE]
    /\ UNCHANGED <<now, storeVars, config, pc, local, sent, used, snap, card, plots,
                   irrigation_log, deleted, pureVars>>

\* GET /trigger/morning
TriggerMorning ==
    /\ morning.up
    /\ used.manuals < MaxManual
    /\ used' = [used EXCEPT !.manuals = @ + 1]
    /\ morning' \in send_morning_update(morning, "manual")
    /\ UNCHANGED <<now, storeVars, config, pc, local, sent, snap, card, plots,
                   irrigation_log, deleted, pureVars>>

MorningNext ==
    \/ ServerStart
    \/ ServerStop
    \/ StartupCatchup
    \/ SevenOClock
    \/ Midnight
    \/ TriggerMorning

InitMorning ==
    /\ InitStore
    /\ InitThreads
    /\ InitPure
    /\ card = NoCard
    /\ config = [telegram_enabled |-> FALSE, has_recipients |-> FALSE,
                 whatsapp_mode |-> "mock"]

SpecMorning == InitMorning /\ [][MorningNext]_vars

(***************************************************************************)
(* FarmDatabase.delete_plot and log_irrigation (database.py), called by    *)
(* the dashboard between checks.                                           *)
(***************************************************************************)
MaxIrrigations == 1     \* irrigations logged in one run
MaxDeletes == 2         \* calls of delete_plot in one run

UNKNOWN_PLOT == 3       \* a name get_plot_info does not find

\* log_irrigation: INSERT INTO irrigation_log for a plot that exists.
LogIrrigation(p) ==
    /\ \A t \in Threads : Idle(t)
    /\ p \in plots
    /\ used.irrigations < MaxIrrigations
    /\ used' = [used EXCEPT !.irrigations = @ + 1]
    /\ LET id == sqlite_sequence.irrigation_log + 1
       IN /\ irrigation_log' = irrigation_log \cup
                 {[id |-> id, plot_id |-> p, irrigated_date |-> now]}
          /\ sqlite_sequence' = [sqlite_sequence EXCEPT !.irrigation_log = id]
    /\ UNCHANGED <<now, satellite_history, satellite_notifications, config, pc, local,
                   sent, snap, card, morning, plots, deleted, pureVars>>

\* delete_plot: False for a plot get_plot_info does not find; else the
\* plot's satellite_history rows, its irrigation_log rows and its plots row
\* are deleted in one transaction and True is returned.  A store error rolls
\* back and is re-raised.
DeletePlot(p) ==
    /\ \A t \in Threads : Idle(t)
    /\ used.deletes < MaxDeletes
    /\ \/ /\ p \notin plots
          /\ deleted' = [plot |-> p, result |-> "false"]
          /\ used' = [used EXCEPT !.deletes = @ + 1]
          /\ UNCHANGED <<satellite_history, irrigation_log, plots>>
       \/ /\ p \in plots
          /\ satellite_history' = {r \in satellite_history : r.plot_id # p}
          /\ irrigation_log' = {r \in irrigation_log : r.plot_id # p}
          /\ plots' = plots \ {p}
          /\ deleted' = [plot |-> p, result |-> "true"]
          /\ used' = [used EXCEPT !.deletes = @ + 1]
       \/ /\ p \in plots
          /\ CanFault
          /\ used' = [used EXCEPT !.deletes = @ + 1, !.faults = @ + 1]
          /\ deleted' = [plot |-> p, result |-> "raised"]
          /\ UNCHANGED <<satellite_history, irrigation_log, plots>>
    /\ UNCHANGED <<now, satellite_notifications, sqlite_sequence, config, pc, local,
                   sent, snap, card, morning, pureVars>>

\* Checks run one after another, every store call of theirs answering, while
\* the dashboard logs irrigations and deletes plots.
DeleteNext ==
    \/ SeqNext /\ used'.faults = used.faults
    \/ \E p \in PlotIds : LogIrrigation(p)
    \/ \E p \in PlotIds \cup {UNKNOWN_PLOT} : DeletePlot(p)

SpecDelete == Init /\ [][DeleteNext]_vars

(***************************************************************************)
(* Properties.                                                             *)
(***************************************************************************)
RecordExists(plot_id, satellite_date) ==
    \E r \in satellite_notifications :
        r.plot_id = plot_id /\ r.satellite_date = satellite_date

Running == {t \in Threads : ~Idle(t)}

Classified == {"improving", "declining", "stable"}

\* C1: over checks run one after another, at most one notification is
\* broadcast per (plot, observation date).
C1_AtMostOncePerDate ==
    \A i, j \in 1..Len(sent) :
        (sent[i].plot_id = sent[j].plot_id /\ sent[i].date = sent[j].date) => i = j

\* C2: a NotificationRecord for (plot, date) exists only if a broadcast for
\* that date was delivered to a recipient, or went to the console because no
\* transport is configured.
C2_RecordOnlyAfterDelivery ==
    \A r \in satellite_notifications :
        \E i \in 1..Len(sent) :
            /\ sent[i].plot_id = r.plot_id
            /\ sent[i].date = r.satellite_date
            /\ sent[i].delivered \/ sent[i].channel = "console"

\* C3: when a check that has broadcast a notification for (plot, date) ends,
\* a NotificationRecord for (plot, date) exists, also when
\* save_satellite_reading failed in between.
C3_SentIsRecorded ==
    \A t \in Threads :
        (pc[t] = "done" /\ local[t].broadcast /\ local[t].save_failed)
            => RecordExists(ACTIVE_PLOT, local[t].sat.date)

\* C4: a check whose observation date already had a NotificationRecord when
\* the check looked for it broadcasts nothing, appends no history row and
\* leaves satellite_notifications unchanged.
C4_ExistingRecordSkips ==
    \A t \in Threads :
        local[t].rec_existed =>
            /\ Len(sent) = snap.sent
            /\ satellite_history = snap.history
            /\ satellite_notifications = snap.notifications

\* C5: satellite_notifications holds at most one row per (plot id,
\* observation date).
C5_OneRecordPerDate ==
    \A r, q \in satellite_notifications :
        (r.plot_id = q.plot_id /\ r.satellite_date = q.satellite_date) => r = q

\* C5 witness: record_satellite_notification ran twice for one (plot, date).
C5_RecordedTwice ==
    /\ sqlite_sequence.satellite_notifications = 2
    /\ Cardinality(satellite_notifications) = 1
    /\ \E r \in satellite_notifications : r.id = 2

\* C6: at most one check is running at any time.
C6_NoOverlap == Cardinality(Running) <= 1

C9_EarliestPass ==
    out.fn = "predict_next_pass" =>
        LET E == SATELLITE_CATALOG[inp.satellite_name].epoch
            R == SATELLITE_CATALOG[inp.satellite_name].revisit_days
            ref == inp.from_date
            d == out.date
        IN /\ d >= ref
           /\ d < ref + R
           /\ (d - E) % R = 0
           /\ \A x \in ref..(d - 1) : (x - E) % R # 0
           /\ ((ref - E) % R = 0) => d = ref
           /\ ((ref - E) % R # 0) => d = ref + (R - ((ref - E) % R))
           /\ (\E k \in 0..MaxRef : ref = E + k * R) => d = ref

\* C9 witness: the next pass from a reference date before the epoch that is
\* not a pass day.
C9_BeforeEpoch ==
    /\ out.fn = "predict_next_pass"
    /\ inp.from_date < SATELLITE_CATALOG[inp.satellite_name].epoch
    /\ out.date > inp.from_date

\* C10: get_pass_schedule is sorted ascending by days-until, and passes that
\* fall on the same day are in ascending priority.
C10_ScheduleSorted ==
    out.fn = "get_pass_schedule" =>
        \A i, j \in 1..Len(out.passes) :
            i < j =>
                /\ out.passes[i].days_until <= out.passes[j].days_until
                /\ out.passes[i].days_until = out.passes[j].days_until
                      => out.passes[i].priority < out.passes[j].priority

\* C10 witness: a schedule with two satellites passing on the same day.
C10_SameDayPasses ==
    /\ out.fn = "get_pass_schedule"
    /\ \E i, j \in 1..Len(out.passes) :
          /\ i < j
          /\ out.passes[i].days_until = out.passes[j].days_until
          /\ out.passes[i].satellite_name # out.passes[j].satellite_name

\* Pass days of a satellite, from the catalog alone.
IsPassDay(name, d) ==
    (d - SATELLITE_CATALOG[name].epoch) % SATELLITE_CATALOG[name].revisit_days = 0

\* Days between a date and the satellite's closest pass, before or after.
PassDistance(name, target) ==
    CHOOSE k \in 0..SATELLITE_CATALOG[name].revisit_days :
        /\ IsPassDay(name, target + k) \/ IsPassDay(name, target - k)
        /\ \A m \in 0..(k - 1) : ~IsPassDay(name, target + m) /\ ~IsPassDay(name, target - m)

InWindow3(name) == PassDistance(name, inp.target_date) <= inp.max_days_window

NoneInWindow == \A n \in DOMAIN SATELLITE_CATALOG : ~InWindow3(n)

\* The candidates are the satellites whose closest pass is within the
\* window, and the returned one has the greatest score of them.
CandidatesAndMaximum ==
    LET sel == out.selection
        cands == sel.candidates
    IN /\ \A n \in DOMAIN SATELLITE_CATALOG :
             InWindow3(n) <=> \E i \in 1..Len(cands) : cands[i].satellite = n
       /\ \A i \in 1..Len(cands) :
             cands[i].days_from_target = PassDistance(cands[i].satellite, inp.target_date)
       /\ cands # <<>> =>
             /\ sel.reason = "scored"
             /\ \E i \in 1..Len(cands) :
                   cands[i].satellite = sel.satellite /\ cands[i].score = sel.score
             /\ \A j \in 1..Len(cands) : cands[j].score <= sel.score

\* C11 as stated: a satellite is a candidate exactly when its closest pass is
\* within the window, every candidate's score is
\* 100*has_api_key + 40*(10/resolution_m) - 10*days_from_target - priority,
\* and the candidate with the greatest score is returned.  In thirds, to
\* keep 40*10/30 exact.
C11_ScoreAsStated ==
    out.fn = "select_best_satellite" =>
        /\ CandidatesAndMaximum
        /\ \A i \in 1..Len(out.selection.candidates) :
              LET c == out.selection.candidates[i]
                  info == SATELLITE_CATALOG[c.satellite]
              IN 3 * c.score = (IF inp.has_key THEN 300 ELSE 0)
                                + 1200 \div info.resolution_m
                                - 30 * c.days_from_target - 3 * info.priority

\* C11 amended: the same, with the resolution term truncated to an integer
\* (40 for 10 m, 13 for 30 m).
C11_ScoreTruncated ==
    out.fn = "select_best_satellite" =>
        /\ CandidatesAndMaximum
        /\ \A i \in 1..Len(out.selection.candidates) :
              LET c == out.selection.candidates[i]
                  info == SATELLITE_CATALOG[c.satellite]
              IN c.score = (IF inp.has_key THEN 100 ELSE 0)
                            + (IF info.resolution_m = 10 THEN 40 ELSE 13)
                            - 10 * c.days_from_target - info.priority

\* C11 witness: a 10 m and a 30 m satellite were both candidates, a third
\* satellite was outside the window, and the 10 m one was returned.
C11_LandsatScored ==
    /\ out.fn = "select_best_satellite"
    /\ out.selection.reason = "scored"
    /\ Len(out.selection.candidates) \in 2..3
    /\ SATELLITE_CATALOG[out.selection.satellite].resolution_m = 10
    /\ \E i \in 1..Len(out.selection.candidates) :
          out.selection.candidates[i].resolution_m = 30

\* C12: with no satellite in the window, select_best_satellite returns the
\* satellite with the soonest pass on or after the target date, whatever the
\* window, and says so in the reason; it always returns a cataloged pass.
C12_SoonestPassFallback ==
    (out.fn = "select_best_satellite" /\ NoneInWindow) =>
        LET sel == out.selection
        IN /\ sel.has_pass
           /\ sel.reason = "No satellite in window, selected soonest pass"
           /\ sel.pass_date >= inp.target_date
           /\ IsPassDay(sel.satellite, sel.pass_date)
           /\ \A n \in DOMAIN SATELLITE_CATALOG :
                 \A d \in inp.target_date..(sel.pass_date - 1) : ~IsPassDay(n, d)

\* The score of an observation, times 30.
ObservationScore30(c) ==
    15 * (IF 100 - 10 * c.age_days > 0 THEN 100 - 10 * c.age_days ELSE 0)
        + 9 * (100 - c.cloud_cover)
        + (IF c.resolution_m = 10 THEN 600 ELSE 200)

\* The returned observation is one of the candidates and none scores higher.
BestIsMaximum ==
    /\ \E i \in 1..Len(inp.candidates) :
          /\ out.best.satellite = inp.candidates[i].satellite
          /\ out.best.age_days = inp.candidates[i].age_days
          /\ out.best.cloud_cover = inp.candidates[i].cloud_cover
          /\ out.best.score = ObservationScore30(inp.candidates[i])
    /\ \A i \in 1..Len(inp.candidates) :
          ObservationScore30(inp.candidates[i]) <= out.best.score

\* A 1-day-old 10%-cloud 10 m image beats a fresh 60%-cloud 30 m one.
ExampleHolds ==
    (/\ Len(inp.candidates) = 2
     /\ \E i \in 1..2 : /\ inp.candidates[i].resolution_m = 10
                        /\ inp.candidates[i].age_days = 1
                        /\ inp.candidates[i].cloud_cover = 10
     /\ \E i \in 1..2 : /\ inp.candidates[i].resolution_m = 30
                        /\ inp.candidates[i].age_days = 0
                        /\ inp.candidates[i].cloud_cover = 60)
        => (out.best.resolution_m = 10 /\ out.best.age_days = 1)

InGatherOrder(candidates) ==
    \A i, j \in 1..Len(candidates) :
        i < j => SATELLITE_CATALOG[candidates[i].satellite].priority
                    < SATELLITE_CATALOG[candidates[j].satellite].priority

\* C14: the result is fixed by the inputs: it is the candidate of greatest
\* score and, among candidates of equal score, the one of lowest priority
\* rank, in _select_best over candidates gathered in the order of
\* get_latest_ndvi and in select_best_satellite.
C14_TieByPriority ==
    /\ (out.fn = "_select_best" /\ InGatherOrder(inp.candidates)) =>
          /\ BestIsMaximum
          /\ \A i \in 1..Len(inp.candidates) :
                ObservationScore30(inp.candidates[i]) = out.best.score =>
                    SATELLITE_CATALOG[out.best.satellite].priority
                        <= SATELLITE_CATALOG[inp.candidates[i].satellite].priority
    /\ (out.fn = "select_best_satellite" /\ out.selection.candidates # <<>>) =>
          \A i \in 1..Len(out.selection.candidates) :
             LET c == out.selection.candidates[i]
             IN /\ c.score <= out.selection.score
                /\ c.score = out.selection.score =>
                      SATELLITE_CATALOG[out.selection.satellite].priority
                          <= SATELLITE_CATALOG[c.satellite].priority

\* C14 witness: Landsat-8 and Landsat-9 images of equal score, Landsat-8
\* returned.
C14_TieReturned ==
    /\ out.fn = "_select_best"
    /\ Len(inp.candidates) = 2
    /\ inp.candidates[1].satellite = "Landsat-8"
    /\ inp.candidates[2].satellite = "Landsat-9"
    /\ ObservationScore30(inp.candidates[1]) = ObservationScore30(inp.candidates[2])
    /\ out.best.satellite = "Landsat-8"

\* Answers under which get_latest_ndvi gathers no candidate: Earth Engine
\* not initialised, or every query failing.
NoImageryWorlds ==
    {[initialized |-> i, queries |-> q, fallback |-> f] :
        i \in BOOLEAN,
        q \in [{"Sentinel-2A", "Landsat-8", "Landsat-9"} ->
                  {NoAnswer(k) : k \in FailureKinds}],
        f \in FallbackAnswers}
    \cup
    {[initialized |-> FALSE,
      queries |-> [n \in {"Sentinel-2A", "Landsat-8", "Landsat-9"} |->
                      [kind |-> "image", spacecraft |-> n, age_days |-> 0,
                       cloud_cover |-> 10, nd |-> 5000]],
      fallback |-> f] : f \in FallbackAnswers}

\* C15: without a candidate get_latest_ndvi returns what the fallback source
\* gives, and None when that gives nothing; a check that got None ends
\* having broadcast nothing, appended no history row and written no
\* NotificationRecord.
C15_NoImageryEndsCleanly ==
    \A t \in Threads :
        (pc[t] = "done" /\ ~local[t].sat.found) =>
            /\ ~local[t].broadcast
            /\ Len(sent) = snap.sent
            /\ satellite_history = snap.history
            /\ satellite_notifications = snap.notifications
            /\ \A w \in NoImageryWorlds :
                  LET r == get_latest_ndvi(w.initialized, w.queries, w.fallback)
                  IN /\ w.fallback.kind = "reading" => (r.found /\ r.source = "fallback")
                     /\ w.fallback.kind # "reading" => ~r.found

\* C15 witness: after a check that found no imagery and changed nothing,
\* the next check has found an image and broadcast it.
C15_NextCheckRuns ==
    /\ used.checks = 2
    /\ used.faults = 0
    /\ satellite_history = {}
    /\ Len(sent) = 1
    /\ \E t \in Threads : pc[t] = "save" /\ local[t].sat.found
    /\ \E t \in Threads : pc[t] = "finished"

Succeeded == {n \in DOMAIN inp.queries : inp.queries[n].kind = "image"}

QueryRank(n) == CHOOSE k \in 1..Len(QueryOrder) : QueryOrder[k] = n

SucceededScore30(n) ==
    ObservationScore30([age_days |-> inp.queries[n].age_days,
                        cloud_cover |-> inp.queries[n].cloud_cover,
                        resolution_m |-> IF n = "Sentinel-2A" THEN 10 ELSE 30])

\* C16: whichever queries fail, get_latest_ndvi returns what _select_best
\* returns for the candidates of the queries that succeeded.
C16_FailuresOnlyShrink ==
    (out.fn = "get_latest_ndvi" /\ inp.initialized /\ Succeeded # {}) =>
        /\ out.result.found
        /\ out.result.source = "GEE"
        /\ \E n \in Succeeded :
              /\ out.result.age_days = inp.queries[n].age_days
              /\ out.result.cloud_cover = inp.queries[n].cloud_cover
              /\ out.result.ndvi = inp.queries[n].nd
              /\ out.result.score = SucceededScore30(n)
              /\ \A m \in Succeeded :
                    \/ SucceededScore30(m) < SucceededScore30(n)
                    \/ SucceededScore30(m) = SucceededScore30(n) /\ QueryRank(n) <= QueryRank(m)
        /\ LET one(n) == IF n \in Succeeded
                         THEN _query_collection(n, inp.queries[n]) ELSE <<>>
               best == _select_best(one("Sentinel-2A") \o one("Landsat-8")
                                       \o one("Landsat-9"))
           IN /\ out.result.satellite = best.satellite
              /\ out.result.score = best.score
              /\ out.result.ndvi = best.ndvi

\* C16 witness: the Sentinel-2 query failed and the better of the two
\* Landsat images was returned.
C16_OneFailedOthersUsed ==
    /\ out.fn = "get_latest_ndvi"
    /\ inp.initialized
    /\ inp.queries["Sentinel-2A"].kind = "exception"
    /\ inp.queries["Landsat-8"].kind = "image"
    /\ inp.queries["Landsat-9"].kind = "image"
    /\ out.result.satellite = "Landsat-9"
    /\ out.result.source = "GEE"

\* C19: every observation get_latest_ndvi hands on has an NDVI in [0, 1].
C19_NdviClamped ==
    (out.fn = "get_latest_ndvi" /\ out.result.found) =>
        out.result.ndvi \in 0..10000

\* The health of an NDVI value under each of the three implementations.
HealthResults(ndvi) ==
    {ndvi_to_health_score(ndvi), GEEProvider_ndvi_to_health(ndvi),
     ReportCard_ndvi_to_health(ndvi)}

\* h is the reference curve at ndvi >= 0, truncated: the integer h with
\* h <= curve(ndvi) < h + 1, the curve written over its common denominator.
OnReferenceCurve(ndvi, h) ==
    IF ndvi < 2000
        THEN h * 2000 <= ndvi * 30 /\ ndvi * 30 < (h + 1) * 2000
    ELSE IF ndvi < 4000
        THEN /\ (h - 30) * 2000 <= (ndvi - 2000) * 30
             /\ (ndvi - 2000) * 30 < (h - 29) * 2000
    ELSE LET over == IF ndvi - 4000 < 4000 THEN ndvi - 4000 ELSE 4000
         IN  /\ (h - 60) * 4000 <= over * 40
             /\ over * 40 < (h - 59) * 4000

HealthMonotone ==
    out.fn = "ndvi_to_health" =>
        \A a \in HealthSamples :
            a <= inp.ndvi =>
                /\ ndvi_to_health_score(a) <= out.monitor
                /\ GEEProvider_ndvi_to_health(a) <= out.gee
                /\ ReportCard_ndvi_to_health(a) <= out.card

\* Every implementation returns a health in [0, 100].
HealthBounded ==
    out.fn = "ndvi_to_health" =>
        \A h \in {out.monitor, out.gee, out.card} : 0 <= h /\ h <= 100

OtherPlotRows(table) == {r \in table : r.plot_id # ACTIVE_PLOT}

LatestReadings == Newest(PlotRows(ACTIVE_PLOT))

\* C21: once the plot has a stored reading, a check that computed the trend
\* of a new observation classified it improving, declining or stable from
\* its difference to the most recent stored reading, and never as
\* baseline/checked, however old that reading is.
C21_TrackedOnceStored ==
    \A t \in Threads :
        (pc[t] = "broadcast" /\ PlotRows(ACTIVE_PLOT) # {}) =>
            /\ local[t].trend \in Classified
            /\ \E r \in LatestReadings :
                  local[t].trend = classify(local[t].sat.ndvi - r.ndvi_value)

\* The history rows written since the running check began.
AppendedRows == satellite_history \ snap.history

\* No step of a check modifies or removes a stored history row.
HistoryAppendOnly ==
    [][used'.cards = used.cards => satellite_history \subseteq satellite_history']_vars

\* C22: history is append-only under checks: the rows on file when a check
\* began are still there unchanged, a check that has notified and is done has
\* appended exactly one row, for its observation, and a check that has not
\* notified has appended none.
C22_OneRowPerNotice ==
    \A t \in Threads :
        ~Idle(t) =>
            /\ snap.history \subseteq satellite_history
            /\ ~local[t].broadcast => AppendedRows = {}
            /\ (local[t].broadcast /\ pc[t] = "done") =>
                  /\ Cardinality(AppendedRows) = 1
                  /\ \A r \in AppendedRows :
                        /\ r.plot_id = ACTIVE_PLOT
                        /\ r.check_date = local[t].sat.date
                        /\ r.ndvi_value = local[t].sat.ndvi

\* C23: for every NDVI in [0, 1] the health score of the check path
\* (server._ndvi_to_health) equals the score of the health mapper
\* (SatelliteMonitor.ndvi_to_health_score) for the same NDVI.
C23_CheckPathHealth ==
    (out.fn = "ndvi_to_health" /\ inp.ndvi >= 0 /\ inp.ndvi <= 10000) =>
        out.server = out.monitor

\* image is the pick the claim describes: nothing when no image of the
\* collection is under the threshold, else one under the threshold that no
\* other such image beats in cloud cover.
LeastCloudy(collection, image) ==
    LET under == {i \in collection : i.cloud < CloudThreshold}
    IN IF under = {} THEN image = NoFirst
       ELSE /\ image \in under
            /\ \A i \in under : image.cloud <= i.cloud

\* Neither fetcher returns an image at or above the cloud threshold.
NoCloudyReturned ==
    out.fn = "first" =>
        \A image \in {out.multi, out.gee} :
            image # NoFirst => image.cloud < CloudThreshold

\* GEEProvider.fetch_ndvi takes the least cloudy image under the threshold.
FetchLeastCloudy == out.fn = "first" => LeastCloudy(inp.collection, out.gee)

\* C24: for one satellite the fetcher returns the image of lowest cloud
\* cover among those of the window under the 50 % threshold, never one at
\* or above it, and a less cloudy image wins over a more recent one, in
\* MultiSatelliteManager._query_collection and in GEEProvider.fetch_ndvi.
C24_LeastCloudyFirst ==
    out.fn = "first" =>
        /\ LeastCloudy(inp.collection, out.multi)
        /\ LeastCloudy(inp.collection, out.gee)

\* C25: in select_best_satellite every candidate's days_from_target is the
\* distance from the target date to the satellite's nearest pass, before or
\* after: min(m, R - m) with m = (target - epoch) mod R, 0 on a pass day, at
\* most floor(R / 2); its pass_date is a pass day at that distance, the
\* forward one when both are equally far.
C25_NearestPass ==
    out.fn = "select_best_satellite" =>
        \A i \in 1..Len(out.selection.candidates) :
            LET c == out.selection.candidates[i]
                R == SATELLITE_CATALOG[c.satellite].revisit_days
                m == (inp.target_date - SATELLITE_CATALOG[c.satellite].epoch) % R
                d == c.days_from_target
            IN /\ d = (IF m <= R - m THEN m ELSE R - m)
               /\ d = PassDistance(c.satellite, inp.target_date)
               /\ IsPassDay(c.satellite, inp.target_date) => d = 0
               /\ 2 * d <= R
               /\ IsPassDay(c.satellite, c.pass_date)
               /\ Abs(c.pass_date - inp.target_date) = d
               /\ IsPassDay(c.satellite, inp.target_date + d) =>
                     c.pass_date = inp.target_date + d

\* C25 witness: among the candidates of one call there is one whose nearest
\* pass lies before the target, and one whose passes before and after are
\* equally far, with the later one reported.
C25_BackwardAndTie ==
    /\ out.fn = "select_best_satellite"
    /\ \E i \in 1..Len(out.selection.candidates) :
          out.selection.candidates[i].pass_date < inp.target_date
    /\ \E i \in 1..Len(out.selection.candidates) :
          LET c == out.selection.candidates[i]
          IN /\ c.days_from_target > 0
             /\ IsPassDay(c.satellite, inp.target_date - c.days_from_target)
             /\ c.pass_date = inp.target_date + c.days_from_target

\* C26: get_pass_schedule returns, for each cataloged satellite, exactly its
\* pass days d with ref <= d <= ref + days_ahead, each once, with
\* days_until = d - ref; consecutive passes of one satellite are one revisit
\* period apart, and the list is empty when days_ahead is negative.
C26_ExactPasses ==
    out.fn = "get_pass_schedule" =>
        LET ref == inp.from_date
            end == inp.from_date + inp.days_ahead
            ps == out.passes
        IN /\ \A n \in DOMAIN SATELLITE_CATALOG, d \in ref..end :
                 IsPassDay(n, d) <=>
                     \E i \in 1..Len(ps) :
                         ps[i].satellite_name = n /\ ps[i].pass_date = d
           /\ \A i \in 1..Len(ps) :
                 /\ ps[i].satellite_name \in DOMAIN SATELLITE_CATALOG
                 /\ ref <= ps[i].pass_date /\ ps[i].pass_date <= end
                 /\ IsPassDay(ps[i].satellite_name, ps[i].pass_date)
                 /\ ps[i].days_until = ps[i].pass_date - ref
                 /\ ps[i].pass_date
                        + SATELLITE_CATALOG[ps[i].satellite_name].revisit_days <= end
                      => \E j \in 1..Len(ps) :
                            /\ ps[j].satellite_name = ps[i].satellite_name
                            /\ ps[j].pass_date = ps[i].pass_date
                                 + SATELLITE_CATALOG[ps[i].satellite_name].revisit_days
           /\ \A i, j \in 1..Len(ps) :
                 (i # j /\ ps[i].satellite_name = ps[j].satellite_name) =>
                     Abs(ps[i].pass_date - ps[j].pass_date)
                         >= SATELLITE_CATALOG[ps[i].satellite_name].revisit_days
           /\ inp.days_ahead < 0 => ps = <<>>

\* C26 witness: a schedule with a pass on its last day and two passes of one
\* satellite a revisit period apart.
C26_PassOnLastDay ==
    /\ out.fn = "get_pass_schedule"
    /\ inp.days_ahead > 0
    /\ \E i \in 1..Len(out.passes) :
          out.passes[i].pass_date = inp.from_date + inp.days_ahead
    /\ \E i, j \in 1..Len(out.passes) :
          /\ out.passes[i].satellite_name = out.passes[j].satellite_name
          /\ out.passes[j].pass_date = out.passes[i].pass_date
                + SATELLITE_CATALOG[out.passes[i].satellite_name].revisit_days

\* C27: when checks of the same plot interleave and every store call
\* answers, at most one notification is broadcast per (plot, observation
\* date): two checks never both pass the de-duplication test for one date and
\* both send.
C27_OncePerDateInterleaved ==
    used.faults = 0 =>
        \A i, j \in 1..Len(sent) :
            (i < j /\ sent[i].plot_id = sent[j].plot_id) => sent[i].date # sent[j].date

\* C28: store errors in the de-duplication lead to sending again, never to
\* dropping: a check whose de-duplication read fails goes on to send, a check
\* skips an observation only when a record for its date is in the store, and a
\* record write that fails after the send leaves no record behind, so that the
\* next check for the date does not skip.
C28_AtLeastOnce ==
    [][\A t \in Threads :
          /\ (pc[t] = "dedup" /\ local'[t].read_failed) => pc'[t] = "trend"
          /\ (pc[t] = "dedup" /\ pc'[t] = "done") =>
                RecordExists(ACTIVE_PLOT, local[t].sat.date)
          /\ (pc[t] = "record" /\ local'[t].record_failed) =>
                /\ local[t].broadcast
                /\ satellite_notifications' = satellite_notifications
                /\ ~local[t].rec_existed =>
                      ~has_sent_notification_for_date(ACTIVE_PLOT, local[t].sat.date)']_vars

\* C28 witness: the record write of a first check failed after its send and
\* save, and the next check has sent the same observation date again.
C28_SentAgainAfterFailedRecord ==
    /\ used.faults = 1
    /\ Len(sent) = 2
    /\ sent[1].date = sent[2].date
    /\ Cardinality(satellite_history) = 1
    /\ satellite_notifications = {}
    /\ \E t \in Threads : pc[t] = "save" /\ local[t].broadcast

\* The morning updates of a day sent by the automatic paths.
AutomaticUpdates(d) ==
    {i \in 1..Len(morning.updates) :
        morning.updates[i].day = d /\ morning.updates[i].by \in {"startup", "scheduler"}}

\* The catch-up sends only when the flag does not hold today's date.
CatchupOnlyUnflagged ==
    \A i \in 1..Len(morning.updates) :
        morning.updates[i].by = "startup" =>
            morning.updates[i].flag_before # morning.updates[i].day

\* The flag holds a date only after a morning update broadcast on that date.
FlagAfterBroadcast ==
    morning.flag # -1 =>
        \E i \in 1..Len(morning.updates) : morning.updates[i].day = morning.flag

\* C29: the automatic paths send at most one morning update per calendar
\* day: the catch-up sends only when the flag does not hold today's date,
\* the flag is set only after a broadcast, and a start before 07:00 followed
\* by the 07:00 job gives one update that day, not two.
C29_OneMorningPerDay ==
    /\ CatchupOnlyUnflagged
    /\ FlagAfterBroadcast
    /\ \A d \in 0..MaxDay : Cardinality(AutomaticUpdates(d)) <= 1

\* The rows of any table that reference plot p.
RowsOf(p, history, irrigations, notifications) ==
    {r \in history : r.plot_id = p} \cup {r \in irrigations : r.plot_id = p}
        \cup {r \in notifications : r.plot_id = p}

\* What delete_plot does do: after True the plot's plots row, history rows
\* and irrigation rows are gone; an unknown plot gives False and no change.
DeleteClearsThreeTables ==
    [][used'.deletes # used.deletes =>
          /\ deleted'.result = "true" =>
                /\ deleted'.plot \notin plots'
                /\ RowsOf(deleted'.plot, satellite_history', irrigation_log', {}) = {}
          /\ deleted'.result = "false" =>
                /\ deleted'.plot \notin plots
                /\ UNCHANGED <<plots, satellite_history, irrigation_log,
                               satellite_notifications>>
          /\ deleted'.plot \notin plots => deleted'.result = "false"]_vars

\* C30: after delete_plot(p) returned True no row of any table references
\* p: its plots row, its irrigation_log rows, its satellite_history rows and
\* its satellite_notifications rows are gone; and delete_plot of an unknown
\* plot returns False and leaves every table unchanged.
C30_DeleteLeavesNothing ==
    [][used'.deletes # used.deletes =>
          /\ deleted'.result = "true" =>
                /\ deleted'.plot \notin plots'
                /\ RowsOf(deleted'.plot, satellite_history', irrigation_log',
                          satellite_notifications') = {}
          /\ deleted'.result = "false" =>
                /\ deleted'.plot \notin plots
                /\ UNCHANGED <<plots, satellite_history, irrigation_log,
                               satellite_notifications>>
          /\ deleted'.plot \notin plots => deleted'.result = "false"]_vars

====
